---- MODULE Spec2Model ----
(***************************************************************************)
(* Model of the MusicGenRNN browser front end.  Three variants of          *)
(* script.js exist:                                                        *)
(*   "inline"  src/frontend/script.js  shared inline panel (#gen-player)   *)
(*   "corner"  src/script.js           corner popup (#audio-popup)         *)
(*   "modal"   src/unnamed/part_000    full-screen popup with an overlay   *)
(* A page runs exactly one of them; the variable variant is fixed by Init. *)
(*                                                                         *)
(* Every async function is cut at its await points: the code between two   *)
(* awaits runs atomically on the single UI thread and is one action.       *)
(* Strings are sequences of tokens, so that template literals and "+" are  *)
(* concatenations (\o) and "contains" is a search.                         *)
(* A descriptor's orig_audio_url is a JavaScript value: undefined (the      *)
(* property is absent), null or a string; "if (v)" is Truthy(v).           *)
(* The anime.js calls are cosmetic and are left out.                       *)
(***************************************************************************)
EXTENDS Integers, Sequences, FiniteSets, TLC

\* ---------------------------------------------------------------- bounds
\* total number of generate requests issued during one page life
MaxReq == 3

\* total number of card selections (inline variant), each creates a button
MaxSel == 2

\* longest list response the rendering is checked on
MaxList == 3

\* ------------------------------------------------------ program constants
Variants == {"inline", "corner", "modal"}

API_BASE == <<"https://musicgen-rnn.onrender.com">>

WORKING_LABEL == <<"Generating...">>

POPUP_LABEL == <<"Generate AI Continuation">>

INLINE_LABEL == <<"Generate continuation">>

MSG_LOADING == <<"Loading tunes...">>

MSG_SENDING == <<"Sending ABC to model and synthesizing audio (this may take a few seconds)...">>

MSG_READY == <<"Generated audio ready.">>

MSG_LIST_FAILED == <<"Failed to load tunes: ">>

MSG_GEN_FAILED == <<"Error generating audio: ">>

MSG_SERVER_ERROR == <<"Server error: ">>

\* ----------------------------------------------------------- input sets
\* descriptors the list endpoint may return ({id, title, orig_audio_url?})
\* JavaScript values a descriptor's orig_audio_url may hold
Undefined == [type |-> "undefined", str |-> <<>>]

Null == [type |-> "null", str |-> <<>>]

Str(s) == [type |-> "string", str |-> s]

\* variant of Truthy: a test against undefined only (v !== undefined)
Truthy_definedOnly(v) == v.type # "undefined"

\* if (v): undefined, null and "" are falsy, every other string is truthy
Truthy(v) == v.type = "string" /\ v.str # <<>>

T1 == [id |-> 1, title |-> <<"Reel">>, orig_audio_url |-> Str(<<"/audio/1.wav">>)]

T2 == [id |-> 2, title |-> <<"Jig">>, orig_audio_url |-> Undefined]

T3 == [id |-> 3, title |-> <<"Polka">>, orig_audio_url |-> Null]

T4 == [id |-> 4, title |-> <<"Waltz">>, orig_audio_url |-> Str(<<>>)]

ListResponses == {<<>>, <<T1>>, <<T1, T2>>}

\* plain-text bodies of non-2xx responses
Bodies == {<<"model overloaded">>, <<"unknown tune">>}

\* e.message of a rejected fetch / body read
NetMsgs == {<<"Failed to fetch">>}

\* e.message of a failed res.json()
ParseMsgs == {<<"Unexpected token">>}

\* ---------------------------------------------------------------- state
\* variant         which script the page runs
\* listPc          the await fetchTuneList() is suspended at, or "done"
\* grid            the cards in #grid, in order
\* btns            every generate button created so far (popup variants: one
\*                 per card; inline: one per card selection), with the tune it
\*                 is bound to and whether it is still on the page
\* listRes         the response fetchTuneList() holds: received or not, its ok
\*                 flag, the plain-text body of a non-ok response, whether
\*                 res.json() has resolved and the array it produced
\* status          #status.innerText
\* popupContainer  #audio-popup: style.display and content (popup variants)
\* overlay         #audio-overlay: style.display and whether onclick is set
\* origPlayerDiv   #orig-player (inline variant)
\* genPlayerDiv    #gen-player (inline variant)
\* reqs            the invocations of the generate handler in click order:
\*                 tune, button, the await it is suspended at or its outcome,
\*                 and the body of the non-ok response it has received
\* blobStore       the blob URL store: URL u is backed by request blobStore[u]
\* failBy          history: the request whose failure was handled last (0: none)
VARIABLES variant, listPc, listRes, grid, btns, status, popupContainer, overlay, origPlayerDiv, genPlayerDiv, reqs, blobStore, failBy

vars == <<variant, listPc, listRes, grid, btns, status, popupContainer, overlay, origPlayerDiv, genPlayerDiv, reqs, blobStore, failBy>>

\* DOM fragments are records of one shape: kind, src/url, btn
Html(kind, src, btn) == [kind |-> kind, src |-> src, btn |-> btn]

EmptyHtml == Html("empty", <<>>, 0)

\* status.innerText = text || ""
setStatus(text) == IF text = <<>> THEN <<>> ELSE text

\* the URLs URL.createObjectURL has handed out and that were never revoked;
\* the source has no URL.revokeObjectURL call, so the store only grows.
\* blobStore[u] is the request whose blob backs URL u.
LiveUrls == 1..Len(blobStore)

Popup == variant \in {"corner", "modal"}

Inline == variant = "inline"

\* an invocation of the generate handler is suspended at await fetch ("fetch"),
\* await res.text() ("text") or await res.blob() ("blob"); once it has run to
\* its end its pc records how: "ok", "httpError" (the thrown Server error) or
\* "netError" (a rejected await)
Pending(r) == reqs[r].pc \in {"fetch", "text", "blob"}

PendingReqs == {r \in DOMAIN reqs : Pending(r)}

\* state after the script ran to its first await: fetchTuneList() has set
\* the status and waits for fetch("/list"); popup and overlay are hidden.
NoResponse == [received |-> FALSE, ok |-> FALSE, body |-> <<>>, parsed |-> FALSE, tunes |-> <<>>]

Init ==
    /\ variant \in Variants
    /\ listPc = "fetch"
    /\ listRes = NoResponse
    /\ grid = <<>>
    /\ btns = <<>>
    /\ status = setStatus(MSG_LOADING)
    /\ popupContainer = [display |-> "none", content |-> EmptyHtml]
    /\ overlay = [display |-> "none", onclick |-> FALSE]
    /\ origPlayerDiv = EmptyHtml
    /\ genPlayerDiv = EmptyHtml
    /\ reqs = <<>>
    /\ blobStore = <<>>
    /\ failBy = 0

\* ------------------------------------------------------------ list fetch
NewBtn(tuneId, label) == [tune |-> tuneId, disabled |-> FALSE, label |-> label, attached |-> TRUE]

\* the original-audio fragment of a card (popup variants) or of the
\* original-audio panel (inline variant, prefix = <<>>)
OrigAudioHtml(prefix, t) ==
    IF Truthy(t.orig_audio_url)
    THEN Html("audio", prefix \o t.orig_audio_url.str, 0)
    ELSE Html("na", <<>>, 0)

\* popup variants: a card carries title, id, the original audio and its own
\* generate button (btn i belongs to card i)
renderGridPopup(tunes) ==
    [i \in 1..Len(tunes) |->
        [title |-> tunes[i].title, id |-> tunes[i].id, tune |-> tunes[i],
         audio |-> OrigAudioHtml(API_BASE, tunes[i]), btn |-> i]]

\* inline variant: a card carries title and id only; its onclick closes
\* over the descriptor
renderGridInline(tunes) ==
    [i \in 1..Len(tunes) |->
        [title |-> tunes[i].title, id |-> tunes[i].id, tune |-> tunes[i],
         audio |-> EmptyHtml, btn |-> 0]]

\* variant of ClearGrid: the old cards are kept
ClearGrid_keep(g) == g

\* grid.innerHTML = ""
ClearGrid(g) == <<>>

\* the cards tunes.forEach appends to the grid
renderGrid(tunes) == IF Popup THEN renderGridPopup(tunes) ELSE renderGridInline(tunes)

renderGridBtns(tunes) ==
    IF Popup
    THEN [i \in 1..Len(tunes) |-> NewBtn(tunes[i].id, POPUP_LABEL)]
    ELSE <<>>

GenUnchanged == UNCHANGED <<popupContainer, overlay, origPlayerDiv, genPlayerDiv, reqs, blobStore, failBy>>

\* await fetch(.../list) resolves with a response whose ok flag is ok.
\* Popup variants read the text of a non-ok response and throw it; the
\* inline variant has no res.ok test and goes on to res.json().
fetchTuneList_fetchResolve(ok, body) ==
    /\ listPc = "fetch"
    /\ body = <<>> <=> ok
    /\ listPc' = IF ok THEN "json" ELSE IF Popup THEN "text" ELSE "jsonErr"
    /\ listRes' = [listRes EXCEPT !.received = TRUE, !.ok = ok, !.body = body]
    /\ UNCHANGED <<variant, grid, btns, status>>
    /\ GenUnchanged

\* throw new Error(await res.text()), caught by the catch clause
fetchTuneList_textResolve ==
    /\ listPc = "text"
    /\ listPc' = "done"
    /\ status' = setStatus(MSG_LIST_FAILED \o listRes.body)
    /\ UNCHANGED <<variant, listRes, grid, btns>>
    /\ GenUnchanged

\* const tunes = await res.json(); renderGrid(tunes); setStatus("")
fetchTuneList_jsonResolve(tunes) ==
    /\ listPc = "json"
    /\ listPc' = "done"
    /\ listRes' = [listRes EXCEPT !.parsed = TRUE, !.tunes = tunes]
    /\ grid' = ClearGrid(grid) \o renderGrid(tunes)
    /\ btns' = renderGridBtns(tunes)
    /\ status' = setStatus(<<>>)
    /\ UNCHANGED variant
    /\ GenUnchanged

\* any of the awaits rejects (transport error, or a body that is not JSON):
\* the catch clause reports e.message.  The plain-text body of a non-ok
\* response (inline variant) does not parse.
fetchTuneList_reject(msg) ==
    /\ listPc \in {"fetch", "text", "json", "jsonErr"}
    /\ msg \in (IF listPc = "jsonErr" THEN ParseMsgs ELSE NetMsgs)
    /\ listPc' = "done"
    /\ status' = setStatus(MSG_LIST_FAILED \o msg)
    /\ UNCHANGED <<variant, listRes, grid, btns>>
    /\ GenUnchanged

\* ------------------------------------------------------ generate: shared
\* a control can be activated when it is on the page and not disabled
Clickable(b) == b \in DOMAIN btns /\ btns[b].attached /\ ~btns[b].disabled

\* variant of DisableBtn: a global busy lock that disables every control
DisableBtn_all(bs, b) == [x \in DOMAIN bs |-> [bs[x] EXCEPT !.disabled = TRUE, !.label = WORKING_LABEL]]

\* btn.disabled = true; btn.innerText = "Generating..."
DisableBtn(bs, b) == [bs EXCEPT ![b].disabled = TRUE, ![b].label = WORKING_LABEL]

\* variant of EnableBtn: the finally clause is missing
EnableBtn_never(bs, b, label) == bs

\* variant of EnableBtn: the label is not restored
EnableBtn_keepLabel(bs, b, label) == [bs EXCEPT ![b].disabled = FALSE]

\* finally { btn.disabled = false; btn.innerText = <original label> }
EnableBtn(bs, b, label) == [bs EXCEPT ![b].disabled = FALSE, ![b].label = label]

\* the invocation of the async handler suspended at its first await
NewReq(b) == [tune |-> btns[b].tune, btn |-> b, pc |-> "fetch", body |-> <<>>]

\* variant of ServerError: the response body is dropped from the message
ServerError_noBody(txt) == MSG_SERVER_ERROR

\* new Error(`Server error: ${txt}`).message
ServerError(txt) == MSG_SERVER_ERROR \o txt

\* setStatus("Error generating audio: " + e.message)
ErrorStatus(msg) == setStatus(MSG_GEN_FAILED \o msg)

\* URL.createObjectURL(blob): a fresh URL backed by the blob of request r
createObjectURL(store, r) == Append(store, r)

SetPc(r, pc) == [reqs EXCEPT ![r].pc = pc]

ListUnchanged == UNCHANGED <<variant, listPc, listRes, grid>>

\* ------------------------------------------- generate: popup variants
\* variant of ShowPopup: a popup that is already open keeps its player
ShowPopup_keepOpen(url) ==
    IF popupContainer.display # "none"
    THEN popupContainer
    ELSE [display |-> IF variant = "modal" THEN "flex" ELSE "block",
          content |-> Html("player", <<url>>, 0)]

\* the popup after a success: corner shows it as "block", modal as "flex"
ShowPopup(url) ==
    [display |-> IF variant = "modal" THEN "flex" ELSE "block",
     content |-> Html("player", <<url>>, 0)]

\* modal only: overlay.style.display = "block"; overlay.onclick = close
ShowOverlay == IF variant = "modal" THEN [display |-> "block", onclick |-> TRUE] ELSE overlay

\* variant of HidePopup: the popup is hidden but keeps its content
HidePopup_keepContent == [display |-> "none", content |-> popupContainer.content]

\* the close handlers: hide the popup (and the overlay) and empty the popup;
\* overlay.onclick stays installed
HidePopup == [display |-> "none", content |-> EmptyHtml]

HideOverlay == IF variant = "modal" THEN [overlay EXCEPT !.display = "none"] ELSE overlay

\* the synchronous head of generateTunePopup(tuneId, btn), up to await fetch
generateTunePopup_click(b) ==
    /\ Popup
    /\ Clickable(b)
    /\ Len(reqs) < MaxReq
    /\ btns' = DisableBtn(btns, b)
    /\ status' = setStatus(MSG_SENDING)
    /\ reqs' = Append(reqs, NewReq(b))
    /\ ListUnchanged
    /\ UNCHANGED <<popupContainer, overlay, origPlayerDiv, genPlayerDiv, blobStore, failBy>>

\* await fetch resolves with a response: a non-ok one (carrying the plain-text
\* body the server chose) goes on to await res.text(), an ok one to await
\* res.blob()
generateTunePopup_fetchResolve(r, ok, body) ==
    /\ Popup
    /\ r \in DOMAIN reqs
    /\ reqs[r].pc = "fetch"
    /\ body = <<>> <=> ok
    /\ reqs' = [reqs EXCEPT ![r].pc = IF ok THEN "blob" ELSE "text", ![r].body = body]
    /\ ListUnchanged
    /\ UNCHANGED <<btns, status, popupContainer, overlay, origPlayerDiv, genPlayerDiv, blobStore, failBy>>

\* variant of generateTunePopup_catch: the handler re-issues the failed request
generateTunePopup_catch_retry(r, msg, how) ==
    /\ status' = ErrorStatus(msg)
    /\ btns' = EnableBtn(btns, reqs[r].btn, POPUP_LABEL)
    /\ reqs' = IF Len(reqs) < MaxReq
                THEN Append(SetPc(r, how), NewReq(reqs[r].btn))
                ELSE SetPc(r, how)
    /\ failBy' = r
    /\ ListUnchanged
    /\ UNCHANGED <<popupContainer, overlay, origPlayerDiv, genPlayerDiv, blobStore>>

\* catch (e) { setStatus(...) } finally { re-enable }: the popup is not touched
generateTunePopup_catch(r, msg, how) ==
    /\ status' = ErrorStatus(msg)
    /\ btns' = EnableBtn(btns, reqs[r].btn, POPUP_LABEL)
    /\ reqs' = SetPc(r, how)
    /\ failBy' = r
    /\ ListUnchanged
    /\ UNCHANGED <<popupContainer, overlay, origPlayerDiv, genPlayerDiv, blobStore>>

\* await res.text() resolves with the body: throw new Error(`Server error: ...`)
generateTunePopup_textResolve(r) ==
    /\ Popup
    /\ r \in DOMAIN reqs
    /\ reqs[r].pc = "text"
    /\ generateTunePopup_catch(r, ServerError(reqs[r].body), "httpError")

\* fetch, res.text() or res.blob() rejects with a transport error
generateTunePopup_reject(r, msg) ==
    /\ Popup
    /\ r \in DOMAIN reqs
    /\ Pending(r)
    /\ generateTunePopup_catch(r, msg, "netError")

\* await res.blob() resolves: create the URL, show the popup, install the
\* close handlers, report success, re-enable the control
generateTunePopup_blobResolve(r) ==
    /\ Popup
    /\ r \in DOMAIN reqs
    /\ reqs[r].pc = "blob"
    /\ blobStore' = createObjectURL(blobStore, r)
    /\ overlay' = ShowOverlay
    /\ popupContainer' = ShowPopup(Len(blobStore'))
    /\ status' = setStatus(MSG_READY)
    /\ btns' = EnableBtn(btns, reqs[r].btn, POPUP_LABEL)
    /\ reqs' = SetPc(r, "ok")
    /\ ListUnchanged
    /\ UNCHANGED <<origPlayerDiv, genPlayerDiv, failBy>>

\* document.getElementById("close-popup").onclick: the button is part of
\* the popup content, so it exists exactly while a player is shown
closePopup_click ==
    /\ Popup
    /\ popupContainer.content.kind = "player"
    /\ popupContainer.display # "none"
    /\ popupContainer' = HidePopup
    /\ overlay' = HideOverlay
    /\ ListUnchanged
    /\ UNCHANGED <<btns, status, origPlayerDiv, genPlayerDiv, reqs, blobStore, failBy>>

\* overlay.onclick (modal only): same body as the close button's handler
overlay_click ==
    /\ variant = "modal"
    /\ overlay.display # "none"
    /\ overlay.onclick
    /\ popupContainer' = HidePopup
    /\ overlay' = HideOverlay
    /\ ListUnchanged
    /\ UNCHANGED <<btns, status, origPlayerDiv, genPlayerDiv, reqs, blobStore, failBy>>

\* --------------------------------------------- generate: inline variant
\* genPlayerDiv.innerHTML = ...: whatever button was in the panel leaves the page
Detach(bs) == [b \in DOMAIN bs |-> [bs[b] EXCEPT !.attached = FALSE]]

\* variant of showGenerateButton: the handler is bound to the id of the last
\* card instead of the selected one
showGenerateButton_lastCard(bs, tuneId) == Append(Detach(bs), NewBtn(grid[Len(grid)].id, INLINE_LABEL))

\* showGenerateButton(tuneId): a new button replaces the panel's content
showGenerateButton(bs, tuneId) == Append(Detach(bs), NewBtn(tuneId, INLINE_LABEL))

\* card.onclick = () => onSelectTune(t)
onSelectTune(i) ==
    /\ Inline
    /\ i \in DOMAIN grid
    /\ Len(btns) < MaxSel
    /\ origPlayerDiv' = OrigAudioHtml(<<>>, grid[i].tune)
    /\ status' = setStatus(<<>>)
    /\ btns' = showGenerateButton(btns, grid[i].tune.id)
    /\ genPlayerDiv' = Html("button", <<>>, Len(btns'))
    /\ ListUnchanged
    /\ UNCHANGED <<popupContainer, overlay, reqs, blobStore, failBy>>

\* the synchronous head of generateTune(tuneId, btn), up to await fetch
generateTune_click(b) ==
    /\ Inline
    /\ Clickable(b)
    /\ Len(reqs) < MaxReq
    /\ btns' = DisableBtn(btns, b)
    /\ status' = setStatus(MSG_SENDING)
    /\ reqs' = Append(reqs, NewReq(b))
    /\ ListUnchanged
    /\ UNCHANGED <<popupContainer, overlay, origPlayerDiv, genPlayerDiv, blobStore, failBy>>

generateTune_fetchResolve(r, ok, body) ==
    /\ Inline
    /\ r \in DOMAIN reqs
    /\ reqs[r].pc = "fetch"
    /\ body = <<>> <=> ok
    /\ reqs' = [reqs EXCEPT ![r].pc = IF ok THEN "blob" ELSE "text", ![r].body = body]
    /\ ListUnchanged
    /\ UNCHANGED <<btns, status, popupContainer, overlay, origPlayerDiv, genPlayerDiv, blobStore, failBy>>

\* catch (e) { setStatus(...); panel = "Generation failed" } finally { re-enable }
generateTune_catch(r, msg, how) ==
    /\ status' = ErrorStatus(msg)
    /\ genPlayerDiv' = Html("failed", <<>>, 0)
    /\ btns' = EnableBtn(Detach(btns), reqs[r].btn, INLINE_LABEL)
    /\ reqs' = SetPc(r, how)
    /\ failBy' = r
    /\ ListUnchanged
    /\ UNCHANGED <<popupContainer, overlay, origPlayerDiv, blobStore>>

generateTune_textResolve(r) ==
    /\ Inline
    /\ r \in DOMAIN reqs
    /\ reqs[r].pc = "text"
    /\ generateTune_catch(r, ServerError(reqs[r].body), "httpError")

generateTune_reject(r, msg) ==
    /\ Inline
    /\ r \in DOMAIN reqs
    /\ Pending(r)
    /\ generateTune_catch(r, msg, "netError")

\* await res.blob() resolves: the player replaces the panel's content
generateTune_blobResolve(r) ==
    /\ Inline
    /\ r \in DOMAIN reqs
    /\ reqs[r].pc = "blob"
    /\ blobStore' = createObjectURL(blobStore, r)
    /\ genPlayerDiv' = Html("audio", <<Len(blobStore')>>, 0)
    /\ status' = setStatus(MSG_READY)
    /\ btns' = EnableBtn(Detach(btns), reqs[r].btn, INLINE_LABEL)
    /\ reqs' = SetPc(r, "ok")
    /\ ListUnchanged
    /\ UNCHANGED <<popupContainer, overlay, origPlayerDiv, failBy>>

\* ------------------------------------------------------- specification
Next ==
    \/ \E ok \in BOOLEAN, body \in Bodies \cup {<<>>} : fetchTuneList_fetchResolve(ok, body)
    \/ fetchTuneList_textResolve
    \/ \E tunes \in ListResponses : fetchTuneList_jsonResolve(tunes)
    \/ \E msg \in NetMsgs \cup ParseMsgs : fetchTuneList_reject(msg)
    \/ \E b \in 1..MaxReq + MaxSel : generateTunePopup_click(b)
    \/ \E r \in 1..MaxReq, ok \in BOOLEAN, body \in Bodies \cup {<<>>} : generateTunePopup_fetchResolve(r, ok, body)
    \/ \E r \in 1..MaxReq : generateTunePopup_textResolve(r)
    \/ \E r \in 1..MaxReq, msg \in NetMsgs : generateTunePopup_reject(r, msg)
    \/ \E r \in 1..MaxReq : generateTunePopup_blobResolve(r)
    \/ closePopup_click
    \/ overlay_click
    \/ \E i \in 1..2 : onSelectTune(i)
    \/ \E b \in 1..MaxReq + MaxSel : generateTune_click(b)
    \/ \E r \in 1..MaxReq, ok \in BOOLEAN, body \in Bodies \cup {<<>>} : generateTune_fetchResolve(r, ok, body)
    \/ \E r \in 1..MaxReq : generateTune_textResolve(r)
    \/ \E r \in 1..MaxReq, msg \in NetMsgs : generateTune_reject(r, msg)
    \/ \E r \in 1..MaxReq : generateTune_blobResolve(r)

Spec == Init /\ [][Next]_vars

\* ------------------------------------------------------------- helpers
StartsWith(s, p) == Len(s) >= Len(p) /\ SubSeq(s, 1, Len(p)) = p

\* the text s contains the text m
Contains(s, m) == \E i \in 1..Len(s) + 1 : i + Len(m) - 1 <= Len(s) /\ SubSeq(s, i, i + Len(m) - 1) = m

\* a generated-audio player is on screen in the result surface
PlayerDisplayed ==
    \/ popupContainer.display # "none" /\ popupContainer.content.kind = "player"
    \/ genPlayerDiv.kind = "audio"

\* the blob URLs that back the players on screen
DisplayedUrls ==
    {u \in LiveUrls :
        \/ popupContainer.display # "none" /\ popupContainer.content = Html("player", <<u>>, 0)
        \/ genPlayerDiv = Html("audio", <<u>>, 0)}

\* a generation failure is being indicated
FailureIndicated == StartsWith(status, MSG_GEN_FAILED) \/ genPlayerDiv.kind = "failed"

OriginalLabel == IF Popup THEN POPUP_LABEL ELSE INLINE_LABEL

\* ------------------------------------------------------------------ C1
\* C1: at most one generate request per tune is outstanding: two pending
\* requests never belong to the same tune.
C1_OneOutstandingPerTune ==
    \A r1, r2 \in PendingReqs : reqs[r1].tune = reqs[r2].tune => r1 = r2

\* ------------------------------------------------------------------ C2
\* C2: the blob URLs that were created and not released are at most the one
\* that is currently displayed.
C2_OnlyDisplayedHandleLive ==
    /\ LiveUrls \subseteq DisplayedUrls
    /\ Cardinality(LiveUrls) <= 1

\* ------------------------------------------------------------------ C3
\* C3: a failure indication and a generated-audio player are never shown at
\* the same time.
C3_NeverSuccessAndFailure == ~(FailureIndicated /\ PlayerDisplayed)

\* ------------------------------------------------------------------ C4
\* the control b issued a request in this step, or the request it issued
\* ran to its end in this step
ActsOn(b) ==
    \E r \in DOMAIN reqs' :
        /\ reqs'[r].btn = b
        /\ \/ r \notin DOMAIN reqs
           \/ Pending(r) /\ reqs'[r].pc \in {"ok", "httpError", "netError"}

\* C4: a click on X's control, and the end of X's request, change the
\* disabled flag and the label of X's control only: every other control
\* keeps both.
C4_OnlyOwnControlChanges ==
    [][\A b \in DOMAIN btns :
          (btns'[b].disabled # btns[b].disabled \/ btns'[b].label # btns[b].label) => ActsOn(b)]_vars

\* two generations for different tunes are in flight at the same time, the
\* second one started while the first control was disabled
C4_Witness ==
    \E r1, r2 \in PendingReqs :
        /\ reqs[r1].tune # reqs[r2].tune
        /\ btns[reqs[r1].btn].disabled
        /\ btns[reqs[r2].btn].disabled

\* ------------------------------------------------------------------ C5
\* C5: a control is disabled exactly while the request it issued is
\* outstanding, shows the working label exactly while disabled and its
\* original label otherwise; so the control of every finished request is
\* enabled with its original label, whatever the outcome.
C5_DisabledIffOutstanding ==
    \A b \in DOMAIN btns :
        /\ btns[b].disabled <=> \E r \in PendingReqs : reqs[r].btn = b
        /\ btns[b].label = (IF btns[b].disabled THEN WORKING_LABEL ELSE OriginalLabel)

\* a success, a Server error and a transport error have all been handled
\* and the controls that issued them are enabled again
C5_Witness ==
    /\ \A how \in {"ok", "httpError", "netError"} :
          \E r \in DOMAIN reqs : reqs[r].pc = how /\ ~btns[reqs[r].btn].disabled
    /\ PendingReqs = {}

\* ------------------------------------------------------------------ C6
\* the tune's last generation has ended (Ready or Failed) and none is running
Terminal(t) ==
    /\ \E r \in DOMAIN reqs : reqs[r].tune = t /\ ~Pending(r)
    /\ \A r \in PendingReqs : reqs[r].tune # t

\* C6: a tune in Ready or Failed has a generate control that is on the page
\* and enabled.
C6_RetriggerFromTerminal ==
    \A t \in {reqs[r].tune : r \in DOMAIN reqs} :
        Terminal(t) => \E b \in DOMAIN btns : btns[b].tune = t /\ Clickable(b)

\* ------------------------------------------------------------------ C7
\* both close means can be used: the close control is in the popup and the
\* overlay is shown with its click handler
BothCloseMeans ==
    /\ popupContainer.content.kind = "player"
    /\ overlay.display # "none" /\ overlay.onclick

\* C7: whenever a result is displayed in the popup both close means are
\* available, and a step that hides the popup leaves it without content,
\* hides the overlay and releases the blob URL of the player it showed.
C7_CloseTearsDownAndReleases ==
    [][/\ (Popup /\ PlayerDisplayed) => BothCloseMeans
       /\ (popupContainer.display # "none" /\ popupContainer'.display = "none") =>
             /\ popupContainer'.content = EmptyHtml
             /\ overlay'.display = "none"
             /\ \A u \in DisplayedUrls : u \notin LiveUrls']_vars

\* ------------------------------------------------------------------ C8
\* C8: when the result surface displays a player, it is the player of the
\* URL created last, that is, of the generation that completed successfully
\* most recently (the surface holds one fragment, so at most one player).
C8_SurfaceShowsLastCompleted ==
    PlayerDisplayed => DisplayedUrls = {Len(blobStore)}

\* two generations completed in the opposite order of their clicks and the
\* surface shows the one that completed last, which was clicked first
C8_Witness ==
    /\ PlayerDisplayed
    /\ Len(blobStore) >= 2
    /\ blobStore[Len(blobStore)] < blobStore[Len(blobStore) - 1]
    /\ reqs[blobStore[Len(blobStore)]].tune # reqs[blobStore[Len(blobStore) - 1]].tune

\* ------------------------------------------------------------------ C9
\* the surface shows a player that an earlier request for r's tune produced
ShowsEarlierResult(r) ==
    \E u \in DisplayedUrls : blobStore[u] < r /\ reqs[blobStore[u]].tune = reqs[r].tune

\* a failure of an earlier request for r's tune is being indicated
ShowsEarlierFailure(r) ==
    FailureIndicated /\ failBy # 0 /\ failBy < r /\ reqs[failBy].tune = reqs[r].tune

\* C9: while a request for tune X is outstanding, no result and no failure
\* indication of an earlier generation for X is displayed.
C9_ClickClearsPreviousOutput ==
    \A r \in PendingReqs : ~ShowsEarlierResult(r) /\ ~ShowsEarlierFailure(r)

\* ----------------------------------------------------------------- C10
\* request r ends in this step with a failure
FailsNow(r) == Pending(r) /\ reqs'[r].pc \in {"httpError", "netError"}

\* C10: the step that handles a failure of a generation leaves an error
\* message in the status area, containing the response body when the failure
\* is a non-2xx response, and the handler runs to its end (its finally clause
\* has re-enabled the control).
C10_FailureBecomesStatus ==
    [][\A r \in DOMAIN reqs :
          FailsNow(r) =>
             /\ StartsWith(status', MSG_GEN_FAILED)
             /\ Len(status') > Len(MSG_GEN_FAILED)
             /\ reqs'[r].pc = "httpError" => Contains(status', reqs[r].body)
             /\ ~btns'[reqs[r].btn].disabled]_vars

\* a non-2xx response with body "model overloaded" has just been handled
C10_Witness ==
    /\ failBy # 0
    /\ reqs[failBy].pc = "httpError"
    /\ reqs[failBy].body = <<"model overloaded">>
    /\ Contains(status, <<"model overloaded">>)
    /\ ~btns[reqs[failBy].btn].disabled

\* ----------------------------------------------------------------- C11
\* fetchTuneList() runs to its end in this step
ListEndsNow == listPc # "done" /\ listPc' = "done"

\* C11: when the list response is not ok, the step that ends fetchTuneList()
\* renders no card and leaves "Failed to load tunes: " followed by the
\* response body in the status (or by the transport error that cut the body
\* short); a rejected await likewise leaves a "Failed to load tunes: "
\* message and no card.
C11_ListFailureReported ==
    [][ListEndsNow =>
          /\ (listRes.received /\ ~listRes.ok) =>
                /\ grid' = grid
                /\ ~listRes'.parsed
                /\ \/ status' = MSG_LIST_FAILED \o listRes.body
                   \/ \E msg \in NetMsgs : status' = MSG_LIST_FAILED \o msg
          /\ ~listRes'.parsed =>
                /\ grid' = grid
                /\ StartsWith(status', MSG_LIST_FAILED)
                /\ Len(status') > Len(MSG_LIST_FAILED)]_vars

\* ----------------------------------------------------------------- C12
\* C12: a step issues at most one generate request, and only as the
\* activation of a control that is on the page and enabled: the new request
\* is bound to that control and its tune, and no request ends in the same
\* step (so the handling of a failure never issues a request); the list is
\* requested once, fetchTuneList() never starts again.
C12_NoAutomaticRetry ==
    [][/\ Len(reqs') \in {Len(reqs), Len(reqs) + 1}
       /\ Len(reqs') = Len(reqs) + 1 =>
             /\ Clickable(reqs'[Len(reqs')].btn)
             /\ reqs'[Len(reqs')].tune = btns[reqs'[Len(reqs')].btn].tune
             /\ reqs'[Len(reqs')].pc = "fetch"
             /\ \A q \in DOMAIN reqs : reqs'[q] = reqs[q]
       /\ listPc = "done" => listPc' = "done"]_vars

\* a failure has been handled, nothing is in flight although another request
\* could still be issued
C12_Witness ==
    /\ failBy # 0
    /\ failBy = Len(reqs)
    /\ PendingReqs = {}
    /\ Len(reqs) < MaxReq
    /\ listPc = "done"

\* ----------------------------------------------------------------- C13
\* the promise request r awaits settles: the response arrives, its body is
\* read, or the await rejects
Settle(r) ==
    \/ \E ok \in BOOLEAN, body \in Bodies \cup {<<>>} : generateTunePopup_fetchResolve(r, ok, body)
    \/ generateTunePopup_textResolve(r)
    \/ \E msg \in NetMsgs : generateTunePopup_reject(r, msg)
    \/ generateTunePopup_blobResolve(r)
    \/ \E ok \in BOOLEAN, body \in Bodies \cup {<<>>} : generateTune_fetchResolve(r, ok, body)
    \/ generateTune_textResolve(r)
    \/ \E msg \in NetMsgs : generateTune_reject(r, msg)
    \/ generateTune_blobResolve(r)

\* every promise an issued request awaits eventually settles, and the event
\* loop then runs the continuation; the user is under no obligation
FairSpec == Spec /\ \A r \in 1..MaxReq : WF_vars(Settle(r))

\* C13: under FairSpec every request that is in flight eventually has run to
\* its end (Ready or Failed) with its control enabled again.
C13_GeneratingEnds ==
    \A r \in 1..MaxReq :
        (r \in DOMAIN reqs /\ Pending(r)) ~>
            (r \in DOMAIN reqs /\ ~Pending(r) /\ ~btns[reqs[r].btn].disabled)

\* a later click has already run to its end while an earlier request for
\* another tune is still in flight, (completion order is not click order)
C13_Witness ==
    \E r1, r2 \in DOMAIN reqs :
        /\ r1 < r2
        /\ reqs[r1].tune # reqs[r2].tune
        /\ Pending(r1)
        /\ ~Pending(r2)
        /\ ~btns[reqs[r2].btn].disabled

\* ----------------------------------------------------------------- C14
\* a card is selected in this step: only onSelectTune adds a button to a
\* page of the inline variant
SelectsNow == Inline /\ Len(btns') = Len(btns) + 1

\* the tunes that are Generating
GeneratingTunes == {reqs[r].tune : r \in PendingReqs}

\* C14: selecting a card issues no request and leaves every request as it
\* is, keeps a displayed generated result on display, and leaves no control
\* of a tune that is Generating activatable.
C14_SelectIsPresentationOnly ==
    [][SelectsNow =>
          /\ reqs' = reqs
          /\ blobStore' = blobStore
          /\ genPlayerDiv.kind = "audio" => genPlayerDiv' = genPlayerDiv
          /\ \A b \in DOMAIN btns' :
                btns'[b].tune \in GeneratingTunes => ~(btns'[b].attached /\ ~btns'[b].disabled)]_vars

\* ------------------------------------------- rendering on larger inputs
Descriptors == {T1, T2, T3, T4}

\* list responses of up to MaxList descriptors with distinct ids
RenderInputs ==
    UNION {{l \in [1..n -> Descriptors] : \A i, j \in 1..n : l[i].id = l[j].id => i = j} : n \in 0..MaxList}

\* renderGrid(tunes) called on a page that is already rendered
renderGrid_call(tunes) ==
    /\ listPc = "done"
    /\ listRes.parsed
    /\ listRes' = [listRes EXCEPT !.tunes = tunes]
    /\ grid' = ClearGrid(grid) \o renderGrid(tunes)
    /\ btns' = IF Popup THEN renderGridBtns(tunes) ELSE btns
    /\ UNCHANGED <<variant, listPc, status>>
    /\ GenUnchanged

\* the list view alone: loading, rendering (again) and selecting, on every
\* list response of RenderInputs
RenderNext ==
    \/ \E ok \in BOOLEAN, body \in Bodies \cup {<<>>} : fetchTuneList_fetchResolve(ok, body)
    \/ fetchTuneList_textResolve
    \/ \E tunes \in RenderInputs : fetchTuneList_jsonResolve(tunes)
    \/ \E msg \in NetMsgs \cup ParseMsgs : fetchTuneList_reject(msg)
    \/ \E tunes \in RenderInputs : renderGrid_call(tunes)
    \/ \E i \in 1..MaxList : onSelectTune(i)

RenderSpec == Init /\ [][RenderNext]_vars

\* ----------------------------------------------------------------- C15
\* C15: once a list response is rendered, the grid holds exactly one card
\* per descriptor, in the response's order, the i-th card showing the title
\* and id of the i-th descriptor and carrying the generate action of that
\* id (popup variants: its own button bound to the id; inline variant: the
\* descriptor its onclick hands to onSelectTune); cards of an earlier
\* rendering are gone.
C15_CardsMatchResponse ==
    listRes.parsed =>
        /\ Len(grid) = Len(listRes.tunes)
        /\ \A i \in DOMAIN grid :
              /\ grid[i].title = listRes.tunes[i].title
              /\ grid[i].id = listRes.tunes[i].id
              /\ grid[i].tune = listRes.tunes[i]
              /\ Popup =>
                    /\ Len(btns) = Len(grid)
                    /\ grid[i].btn \in DOMAIN btns
                    /\ btns[grid[i].btn].tune = listRes.tunes[i].id
                    /\ \A j \in DOMAIN grid : grid[j].btn = grid[i].btn => j = i

\* a list of MaxList descriptors is rendered where another list was rendered
\* before: a button made for a card of the earlier rendering still exists
C15_Witness ==
    /\ Inline
    /\ listRes.parsed
    /\ Len(grid) = MaxList
    /\ \E b \in DOMAIN btns : \A i \in DOMAIN grid : grid[i].id # btns[b].tune

\* ----------------------------------------------------------------- C16
\* the original-audio fragment h shown for descriptor t, whose URL is written
\* after prefix: an audio control exactly when orig_audio_url is a non-empty
\* string, then with that URL as source, and the "not available" indicator
\* otherwise
OrigAudioOk(h, prefix, t) ==
    /\ h.kind \in {"audio", "na"}
    /\ h.kind = "audio" <=> (t.orig_audio_url.type = "string" /\ t.orig_audio_url.str # <<>>)
    /\ h.kind = "audio" => (h.src = prefix \o t.orig_audio_url.str /\ Len(h.src) > Len(prefix))

\* C16: every card of the popup variants, and the original-audio panel of
\* the inline variant after a card is selected, shows an audio control if
\* and only if the descriptor's orig_audio_url is a non-empty string, and
\* the "not available" indicator when it is absent, null or empty.
C16_OrigAudioIffUrl ==
    [][/\ Popup => \A i \in DOMAIN grid' : OrigAudioOk(grid'[i].audio, API_BASE, grid'[i].tune)
       /\ SelectsNow =>
             \E i \in DOMAIN grid :
                /\ grid[i].id = btns'[Len(btns')].tune
                /\ OrigAudioOk(origPlayerDiv', <<>>, grid[i].tune)]_vars

\* cards for a URL, a null and an empty orig_audio_url are on the page, or
\* the panel shows "not available" for a selected card without a usable URL
C16_Witness ==
    \/ /\ Popup
       /\ {grid[i].tune : i \in DOMAIN grid} = {T1, T3, T4}
       /\ \E i \in DOMAIN grid : grid[i].audio.kind = "audio"
       /\ \E i \in DOMAIN grid : grid[i].audio.kind = "na" /\ grid[i].tune = T4
    \/ /\ Inline
       /\ origPlayerDiv.kind = "na"
       /\ btns # <<>>
       /\ btns[Len(btns)].tune \in {T2.id, T3.id, T4.id}

\* ----------------------------------------------------------------- C17
\* the panel shows the outcome of a generation
PanelShowsOutcome == Inline /\ genPlayerDiv.kind \in {"audio", "failed"}

\* the request whose outcome the panel shows: the one whose blob backs the
\* displayed URL, or the one whose failure was handled last
PanelOwner ==
    IF genPlayerDiv.kind = "audio" THEN blobStore[genPlayerDiv.src[1]] ELSE failBy

\* the descriptor of the card with the given id
DescriptorOf(id) == CHOOSE t \in {grid[i].tune : i \in DOMAIN grid} : t.id = id

\* the outcome in the panel is one of the tune that is selected now: the
\* tune of the newest button, whose original audio the other panel shows
OwnerIsSelected ==
    /\ reqs[PanelOwner].tune = btns[Len(btns)].tune
    /\ origPlayerDiv = OrigAudioHtml(<<>>, DescriptorOf(reqs[PanelOwner].tune))

\* C17 (as stated): whenever the panel shows a player or "Generation
\* failed", it is the outcome of a generation for the tune selected now.
C17_PanelBelongsToSelected == PanelShowsOutcome => OwnerIsSelected

\* C17 (amended): the outcome in the panel is one of the tune selected now
\* provided no card was selected since the control that started that
\* generation was activated, that is, provided that control is the newest
\* button.
C17_PanelBelongsToClicked ==
    (PanelShowsOutcome /\ reqs[PanelOwner].btn = Len(btns)) => OwnerIsSelected

\* after tune 1 and then tune 2 were selected, a generation for tune 2 has
\* put its player into the panel
C17_Witness ==
    /\ PanelShowsOutcome
    /\ genPlayerDiv.kind = "audio"
    /\ Len(btns) = 2
    /\ btns[1].tune # btns[2].tune
    /\ reqs[PanelOwner].btn = Len(btns)

\* ----------------------------------------------------------------- C18
PopupVisible == popupContainer.display # "none"

\* C18: in the popup variants the popup is visible exactly when it holds a
\* player (with its close control) and is empty when hidden; in the modal
\* variant the overlay is visible exactly when the popup is, and the corner
\* variant never shows an overlay.
C18_VisibilityAgreesWithContent ==
    Popup =>
        /\ PopupVisible <=> popupContainer.content.kind = "player"
        /\ ~PopupVisible => popupContainer.content = EmptyHtml
        /\ variant = "modal" => (overlay.display # "none" <=> PopupVisible)
        /\ variant = "corner" => overlay.display = "none"

\* modal variant: a result was shown and closed, and a later generation has
\* failed, leaving popup and overlay hidden
C18_Witness ==
    /\ variant = "modal"
    /\ ~PopupVisible
    /\ overlay.onclick
    /\ blobStore # <<>>
    /\ failBy > blobStore[Len(blobStore)]

====
